---- MODULE Spec2Model ----
(***************************************************************************)
(* The tree-walking evaluator of integer_interpreter.py as an abstract     *)
(* machine.  Python's call stack is the sequence `stack`; dictionaries     *)
(* (environments) and Variable objects are heap objects with identity:     *)
(* `dicts[d]` is the dictionary with reference d, `cells[a]` the value     *)
(* field of the Variable with reference a.  One action per branch of       *)
(* evaluate_expression / evaluate_lambda / read_input.                      *)
(***************************************************************************)
EXTENDS Integers, Sequences, FiniteSets

VARIABLES
    prog,    \* parsed_input: the expression tree handed to read_input
    ctrl,    \* what the interpreter is doing: evaluating, returning, raising, exited
    stack,   \* pending evaluate_expression / evaluate_lambda activations
    dicts,   \* heap of dictionaries; dicts[1] is global_environment
    cells,   \* heap of Variable objects (their .value)
    out      \* lines written to standard output, each the tuple of values printed

vars == <<prog, ctrl, stack, dicts, cells, out>>

----------------------------------------------------------------------------
(* Bounds of the input space *)

MaxLit == 2        \* integer literals are drawn from -MaxLit..MaxLit in arithmetic inputs
MaxClauses == 3    \* Cond inputs have 1..MaxClauses clauses
MaxDepth == 3      \* nesting depth of Blocks in scoping inputs
MaxArgs == 3       \* Applications have 0..MaxArgs arguments
MaxParams == 2     \* Lambdas have 0..MaxParams parameters

----------------------------------------------------------------------------
(* Expression trees (the JSON shapes evaluate_expression recognises) *)

IntLit(n) == [k |-> "Int", int |-> n]
BoolLit(b) == [k |-> "Bool", bool |-> b]
StrLit(s) == [k |-> "Str", str |-> s]
Id(n) == [k |-> "Identifier", name |-> n]
App(f, args) == [k |-> "Application", items |-> <<f>> \o args]
Clause(t, c) == [test |-> t, consequent |-> c]
Cond(cs) == [k |-> "Cond", clauses |-> cs]
Block(es) == [k |-> "Block", body |-> es]
Let(n, e, b) == [k |-> "Let", name |-> n, val |-> e, body |-> b]
Assignment(n, e) == [k |-> "Assignment", name |-> n, val |-> e]
Lambda(ps, es) == [k |-> "Lambda", params |-> ps, body |-> es]
Invalid == [k |-> "Invalid"]
NoExpr == [k |-> "NoExpr"]

----------------------------------------------------------------------------
(* Runtime values *)

IntV(n) == [t |-> "int", int |-> n]
BoolV(b) == [t |-> "bool", bool |-> b]
StrV(s) == [t |-> "str", str |-> s]
Builtin(n) == [t |-> "builtin", name |-> n]
Closure(ps, es, d) == [t |-> "closure", params |-> ps, body |-> es, env |-> d]
None == [t |-> "None"]
\* the object ValueError("Error: Division by zero") used as an ordinary value
ErrorObject == [t |-> "ValueError", msg |-> "Error: Division by zero"]

\* bool is a subclass of int in Python
Numeric(x) == x.t \in {"int", "bool"}
IntOf(x) == IF x.t = "bool" THEN (IF x.bool THEN 1 ELSE 0) ELSE x.int
callable(x) == x.t \in {"builtin", "closure"}

\* Bindings of a dictionary: a Variable object or a bare value
Variable(a) == [b |-> "Variable", a |-> a]
Bare(x) == [b |-> "bare", v |-> x]

global_environment ==
    [n \in {"x", "v", "i", "add", "sub", "mul", "div", "mod", "eq",
            "true", "false", "zero?", "print"} |->
        CASE n = "x" -> Variable(1)
          [] n = "v" -> Variable(2)
          [] n = "i" -> Variable(3)
          [] n = "true" -> Bare(BoolV(TRUE))
          [] n = "false" -> Bare(BoolV(FALSE))
          [] OTHER -> Bare(Builtin(n))]

\* The .value of the three Variables global_environment is built with
InitialCells == <<IntV(10), IntV(5), IntV(1)>>

----------------------------------------------------------------------------
(* Builtin operations *)

\* Python's a // b and a % b (floor division, remainder with the divisor's sign)
FloorDiv(a, b) == IF b > 0 THEN a \div b ELSE (-a) \div (-b)
PyMod(a, b) == a - b * FloorDiv(a, b)

Returns(x) == [raise |-> "", val |-> x]
Raises(kind) == [raise |-> kind, val |-> None]

\* func(*args) for a builtin.  A wrong number of arguments or a non-numeric
\* operand of an arithmetic operator is Python's own TypeError.
CallBuiltin(name, args) ==
    LET two == Len(args) = 2
        nums == \A j \in 1..Len(args) : Numeric(args[j])
        a == IntOf(args[1])
        b == IntOf(args[2])
    IN CASE name = "print" -> Returns(None)
         [] name = "zero?" ->
              IF Len(args) # 1 THEN Raises("TypeError")
              ELSE Returns(BoolV(Numeric(args[1]) /\ IntOf(args[1]) = 0))
         [] name = "eq" ->
              IF ~two THEN Raises("TypeError")
              ELSE IF nums THEN Returns(BoolV(a = b))
              ELSE Returns(BoolV(args[1] = args[2]))
         [] name \in {"add", "sub", "mul"} ->
              IF ~two \/ ~nums THEN Raises("TypeError")
              ELSE Returns(IntV(CASE name = "add" -> a + b
                                  [] name = "sub" -> a - b
                                  [] name = "mul" -> a * b))
         [] name \in {"div", "mod"} ->
              IF ~two THEN Raises("TypeError")
              ELSE IF Numeric(args[2]) /\ b = 0 THEN Returns(ErrorObject)
              ELSE IF ~nums THEN Raises("TypeError")
              ELSE Returns(IntV(IF name = "div" THEN FloorDiv(a, b) ELSE PyMod(a, b)))

----------------------------------------------------------------------------
(* Machine plumbing *)

Eval(e, d) == [mode |-> "eval", expr |-> e, env |-> d, val |-> None, err |-> ""]
Ret(x) == [mode |-> "return", expr |-> NoExpr, env |-> 0, val |-> x, err |-> ""]
Raise(kind) == [mode |-> "raise", expr |-> NoExpr, env |-> 0, val |-> None, err |-> kind]
Exit(x, kind) == [mode |-> "exit", expr |-> NoExpr, env |-> 0, val |-> x, err |-> kind]

Top == stack[Len(stack)]
Pop == SubSeq(stack, 1, Len(stack) - 1)
Push(f) == Append(stack, f)

Evaluating(kind) == ctrl.mode = "eval" /\ ctrl.expr.k = kind
Returning(kind) == ctrl.mode = "return" /\ stack # <<>> /\ Top.k = kind

\* env.copy(): a new dictionary with the same bindings (same Variable references)
copy(d) == dicts[d]

\* The dictionary evaluate_lambda builds: closure_env.copy() with every parameter
\* bound, in order, to a new Variable; the i-th new Variable has reference base + i
\* and a repeated parameter name keeps the last one.
LastIndex(ps, n) == CHOOSE i \in 1..Len(ps) : ps[i] = n /\ \A j \in (i+1)..Len(ps) : ps[j] # n
ParamNames(ps) == {ps[i] : i \in 1..Len(ps)}
BindParameters(d, ps, base) ==
    [n \in DOMAIN copy(d) \cup ParamNames(ps) |->
        IF n \in ParamNames(ps) THEN Variable(base + LastIndex(ps, n)) ELSE copy(d)[n]]

\* local_env = env.copy(); local_env[var_name] = Variable(...) with reference a
BindNew(d, n, a) == [m \in DOMAIN copy(d) \cup {n} |-> IF m = n THEN Variable(a) ELSE copy(d)[m]]

----------------------------------------------------------------------------
(* evaluate_expression, one action per branch *)

\* isinstance(expression, int): integer literals, and JSON true/false (bool is an int)
EvalInteger ==
    /\ Evaluating("Int") \/ Evaluating("Bool")
    /\ ctrl' = Ret(IF ctrl.expr.k = "Int" THEN IntV(ctrl.expr.int) ELSE BoolV(ctrl.expr.bool))
    /\ UNCHANGED <<prog, stack, dicts, cells, out>>

EvalString ==
    /\ Evaluating("Str")
    /\ ctrl' = Ret(StrV(ctrl.expr.str))
    /\ UNCHANGED <<prog, stack, dicts, cells, out>>

EvalIdentifier ==
    /\ Evaluating("Identifier")
    /\ LET env == dicts[ctrl.env]
           identifier == ctrl.expr.name
       IN ctrl' = IF identifier \in DOMAIN env
                  THEN IF env[identifier].b = "Variable"
                       THEN Ret(cells[env[identifier].a])
                       ELSE Ret(env[identifier].v)
                  ELSE Raise("UnboundIdentifier")
    /\ UNCHANGED <<prog, stack, dicts, cells, out>>

\* func = evaluate_expression(func_expr[0], env) starts the walk over the children
EvalApplication ==
    /\ Evaluating("Application")
    /\ stack' = Push([k |-> "Application", got |-> <<>>,
                      todo |-> Tail(ctrl.expr.items), env |-> ctrl.env])
    /\ ctrl' = Eval(Head(ctrl.expr.items), ctrl.env)
    /\ UNCHANGED <<prog, dicts, cells, out>>

\* ApplicationNextArgument taking the arguments from the right
ApplicationNextArgument_RightToLeft ==
    /\ Returning("Application")
    /\ Top.todo # <<>>
    /\ stack' = Append(Pop, [Top EXCEPT !.got = Append(@, ctrl.val),
                                        !.todo = SubSeq(@, 1, Len(@) - 1)])
    /\ ctrl' = Eval(Top.todo[Len(Top.todo)], Top.env)
    /\ UNCHANGED <<prog, dicts, cells, out>>

\* a child has returned and another argument is left: evaluate it, in the same env
ApplicationNextArgument ==
    /\ Returning("Application")
    /\ Top.todo # <<>>
    /\ stack' = Append(Pop, [Top EXCEPT !.got = Append(@, ctrl.val), !.todo = Tail(@)])
    /\ ctrl' = Eval(Head(Top.todo), Top.env)
    /\ UNCHANGED <<prog, dicts, cells, out>>

\* every child has returned: func and args are known
ApplicationReady == Returning("Application") /\ Top.todo = <<>>
Func == Append(Top.got, ctrl.val)[1]
Args == Tail(Append(Top.got, ctrl.val))

ApplicationNotCallable ==
    /\ ApplicationReady
    /\ ~callable(Func)
    /\ ctrl' = Raise("NotCallable")
    /\ stack' = Pop
    /\ UNCHANGED <<prog, dicts, cells, out>>

ApplicationBuiltin ==
    /\ ApplicationReady
    /\ Func.t = "builtin"
    /\ LET r == CallBuiltin(Func.name, Args)
       IN /\ ctrl' = IF r.raise = "" THEN Ret(r.val) ELSE Raise(r.raise)
          /\ out' = IF Func.name = "print" THEN Append(out, Args) ELSE out
    /\ stack' = Pop
    /\ UNCHANGED <<prog, dicts, cells>>

\* evaluate_lambda without the length test: zip binds as many parameters as it can
FirstN(q, n) == SubSeq(q, 1, IF n < Len(q) THEN n ELSE Len(q))
evaluate_lambda_NoArityCheck ==
    /\ ApplicationReady
    /\ Func.t = "closure"
    /\ LET parameters == FirstN(Func.params, Len(Args))
           body == Func.body
           local_env == Len(dicts) + 1
       IN /\ dicts' = Append(dicts, BindParameters(Func.env, parameters, Len(cells)))
          /\ cells' = cells \o FirstN(Args, Len(parameters))
          /\ IF body = <<>>
             THEN ctrl' = Ret(None) /\ stack' = Pop
             ELSE /\ ctrl' = Eval(Head(body), local_env)
                  /\ stack' = Append(Pop, [k |-> "Body", todo |-> Tail(body),
                                           env |-> local_env])
    /\ UNCHANGED <<prog, out>>

\* func(*args) for a closure: evaluate_lambda(parameters, body, args, closure_env)
evaluate_lambda ==
    /\ ApplicationReady
    /\ Func.t = "closure"
    /\ LET parameters == Func.params
           body == Func.body
           local_env == Len(dicts) + 1
       IN IF Len(parameters) # Len(Args)
          THEN /\ ctrl' = Raise("ArityMismatch")
               /\ stack' = Pop
               /\ UNCHANGED <<dicts, cells>>
          ELSE /\ dicts' = Append(dicts, BindParameters(Func.env, parameters, Len(cells)))
               /\ cells' = cells \o Args
               /\ IF body = <<>>
                  THEN ctrl' = Ret(None) /\ stack' = Pop
                  ELSE /\ ctrl' = Eval(Head(body), local_env)
                       /\ stack' = Append(Pop, [k |-> "Body", todo |-> Tail(body),
                                                env |-> local_env])
    /\ UNCHANGED <<prog, out>>

\* for expr in body: result = evaluate_expression(expr, local_env)
LambdaBodyNext ==
    /\ Returning("Body")
    /\ IF Top.todo = <<>>
       THEN ctrl' = Ret(ctrl.val) /\ stack' = Pop
       ELSE /\ ctrl' = Eval(Head(Top.todo), Top.env)
            /\ stack' = Append(Pop, [Top EXCEPT !.todo = Tail(@)])
    /\ UNCHANGED <<prog, dicts, cells, out>>

\* for clause in expression["Cond"]: the next clause's test, or no clause is left
CondNextClause(clauses, d) ==
    IF clauses = <<>>
    THEN /\ ctrl' = Raise("NoMatchingClause")
         /\ stack' = IF Returning("Cond") THEN Pop ELSE stack
    ELSE /\ ctrl' = Eval(Head(clauses).test, d)
         /\ stack' = Append(IF Returning("Cond") THEN Pop ELSE stack,
                            [k |-> "Cond", consequent |-> Head(clauses).consequent,
                             todo |-> Tail(clauses), env |-> d])

EvalCond ==
    /\ Evaluating("Cond")
    /\ CondNextClause(ctrl.expr.clauses, ctrl.env)
    /\ UNCHANGED <<prog, dicts, cells, out>>

\* CondTestResult without the isinstance test: any truthy value selects the clause
CondTestResult_Truthy ==
    /\ Returning("Cond")
    /\ LET test_result == ctrl.val
       IN IF Numeric(test_result) /\ IntOf(test_result) # 0
          THEN ctrl' = Eval(Top.consequent, Top.env) /\ stack' = Pop
          ELSE CondNextClause(Top.todo, Top.env)
    /\ UNCHANGED <<prog, dicts, cells, out>>

\* test_result is known
CondTestResult ==
    /\ Returning("Cond")
    /\ LET test_result == ctrl.val
       IN IF test_result.t # "bool"
          THEN ctrl' = Raise("TypeMismatch") /\ stack' = Pop
          ELSE IF test_result.bool
          THEN ctrl' = Eval(Top.consequent, Top.env) /\ stack' = Pop
          ELSE CondNextClause(Top.todo, Top.env)
    /\ UNCHANGED <<prog, dicts, cells, out>>

\* copy.deepcopy(env) in place of env.copy(): every Variable of env is duplicated
VariablesOf(env) == {env[n].a : n \in {m \in DOMAIN env : env[m].b = "Variable"}}
Rank(A, a) == Cardinality({b \in A : b <= a})
DeepCopiedDict(env) ==
    [n \in DOMAIN env |-> IF env[n].b = "Variable"
                          THEN Variable(Len(cells) + Rank(VariablesOf(env), env[n].a))
                          ELSE env[n]]
DeepCopiedCells(env) ==
    [j \in 1..Cardinality(VariablesOf(env)) |->
        cells[CHOOSE a \in VariablesOf(env) : Rank(VariablesOf(env), a) = j]]

\* EvalBlock with local_env = copy.deepcopy(env)
EvalBlock_DeepCopy ==
    /\ Evaluating("Block")
    /\ LET local_env == Len(dicts) + 1
           body == ctrl.expr.body
       IN /\ dicts' = Append(dicts, DeepCopiedDict(dicts[ctrl.env]))
          /\ cells' = cells \o DeepCopiedCells(dicts[ctrl.env])
          /\ IF body = <<>>
             THEN ctrl' = Ret(None) /\ stack' = stack
             ELSE /\ ctrl' = Eval(Head(body), local_env)
                  /\ stack' = Push([k |-> "Block", todo |-> Tail(body), env |-> local_env])
    /\ UNCHANGED <<prog, out>>

\* local_env = env.copy(), then the expressions in order in local_env
EvalBlock ==
    /\ Evaluating("Block")
    /\ LET local_env == Len(dicts) + 1
           body == ctrl.expr.body
       IN /\ dicts' = Append(dicts, copy(ctrl.env))
          /\ IF body = <<>>
             THEN ctrl' = Ret(None) /\ stack' = stack
             ELSE /\ ctrl' = Eval(Head(body), local_env)
                  /\ stack' = Push([k |-> "Block", todo |-> Tail(body), env |-> local_env])
    /\ UNCHANGED <<prog, cells, out>>

BlockNext ==
    /\ Returning("Block")
    /\ IF Top.todo = <<>>
       THEN ctrl' = Ret(ctrl.val) /\ stack' = Pop
       ELSE /\ ctrl' = Eval(Head(Top.todo), Top.env)
            /\ stack' = Append(Pop, [Top EXCEPT !.todo = Tail(@)])
    /\ UNCHANGED <<prog, dicts, cells, out>>

\* EvalLet with the name bound before its value is computed: the value expression
\* is evaluated in the extended environment
EvalLet_BindsFirst ==
    /\ Evaluating("Let")
    /\ cells' = Append(cells, None)
    /\ dicts' = Append(dicts, BindNew(ctrl.env, ctrl.expr.name, Len(cells) + 1))
    /\ stack' = Push([k |-> "Let", name |-> ctrl.expr.name, body |-> ctrl.expr.body,
                      env |-> Len(dicts) + 1])
    /\ ctrl' = Eval(ctrl.expr.val, Len(dicts) + 1)
    /\ UNCHANGED <<prog, out>>

\* var_value = evaluate_expression(let_expr[1], env)
EvalLet ==
    /\ Evaluating("Let")
    /\ stack' = Push([k |-> "Let", name |-> ctrl.expr.name, body |-> ctrl.expr.body,
                      env |-> ctrl.env])
    /\ ctrl' = Eval(ctrl.expr.val, ctrl.env)
    /\ UNCHANGED <<prog, dicts, cells, out>>

\* LetBind storing into the Variable the name already has, when it has one
LetBind_ReusesCell ==
    /\ Returning("Let")
    /\ LET local_env == Len(dicts) + 1
           env == dicts[Top.env]
           bound == Top.name \in DOMAIN env /\ env[Top.name].b = "Variable"
       IN /\ cells' = IF bound THEN [cells EXCEPT ![env[Top.name].a] = ctrl.val]
                      ELSE Append(cells, ctrl.val)
          /\ dicts' = Append(dicts, IF bound THEN copy(Top.env)
                                    ELSE BindNew(Top.env, Top.name, Len(cells) + 1))
          /\ ctrl' = Eval(Top.body, local_env)
    /\ stack' = Pop
    /\ UNCHANGED <<prog, out>>

\* LetBind without env.copy(): the binding is added to env itself
LetBind_NoCopy ==
    /\ Returning("Let")
    /\ cells' = Append(cells, ctrl.val)
    /\ dicts' = [dicts EXCEPT ![Top.env] = BindNew(Top.env, Top.name, Len(cells) + 1)]
    /\ ctrl' = Eval(Top.body, Top.env)
    /\ stack' = Pop
    /\ UNCHANGED <<prog, out>>

\* local_env = env.copy(); local_env[var_name] = Variable(var_value); then the body
LetBind ==
    /\ Returning("Let")
    /\ LET local_env == Len(dicts) + 1
       IN /\ cells' = Append(cells, ctrl.val)
          /\ dicts' = Append(dicts, BindNew(Top.env, Top.name, Len(cells) + 1))
          /\ ctrl' = Eval(Top.body, local_env)
    /\ stack' = Pop
    /\ UNCHANGED <<prog, out>>

\* var_value = evaluate_expression(assignment_expr[1], env)
EvalAssignment ==
    /\ Evaluating("Assignment")
    /\ stack' = Push([k |-> "Assignment", name |-> ctrl.expr.name, env |-> ctrl.env])
    /\ ctrl' = Eval(ctrl.expr.val, ctrl.env)
    /\ UNCHANGED <<prog, dicts, cells, out>>

\* AssignmentStore as env[var_name] = Variable(var_value): a name that is unbound
\* or bound to a builtin gets a binding instead of an error
AssignmentStore_Defines ==
    /\ Returning("Assignment")
    /\ LET env == dicts[Top.env]
           var_name == Top.name
           var_value == ctrl.val
       IN IF var_name \in DOMAIN env /\ env[var_name].b = "Variable"
          THEN /\ cells' = [cells EXCEPT ![env[var_name].a] = var_value]
               /\ dicts' = dicts
          ELSE /\ cells' = Append(cells, var_value)
               /\ dicts' = [dicts EXCEPT ![Top.env] = BindNew(Top.env, var_name, Len(cells) + 1)]
    /\ ctrl' = Ret(ctrl.val)
    /\ stack' = Pop
    /\ UNCHANGED <<prog, out>>

AssignmentStore ==
    /\ Returning("Assignment")
    /\ LET env == dicts[Top.env]
           var_name == Top.name
           var_value == ctrl.val
       IN IF var_name \in DOMAIN env
          THEN IF env[var_name].b = "Variable"
               THEN /\ cells' = [cells EXCEPT ![env[var_name].a] = var_value]
                    /\ ctrl' = Ret(var_value)
               ELSE /\ ctrl' = Raise("NotAssignable")
                    /\ cells' = cells
          ELSE /\ ctrl' = Raise("UnboundIdentifier")
               /\ cells' = cells
    /\ stack' = Pop
    /\ UNCHANGED <<prog, dicts, out>>

\* EvalLambda with closure_env = copy.deepcopy(env): the closure snapshots the values
EvalLambda_Snapshot ==
    /\ Evaluating("Lambda")
    /\ dicts' = Append(dicts, DeepCopiedDict(dicts[ctrl.env]))
    /\ cells' = cells \o DeepCopiedCells(dicts[ctrl.env])
    /\ ctrl' = Ret(Closure(ctrl.expr.params, ctrl.expr.body, Len(dicts) + 1))
    /\ UNCHANGED <<prog, stack, out>>

\* closure_env = env.copy(); the lambda returned holds parameters, body, closure_env
EvalLambda ==
    /\ Evaluating("Lambda")
    /\ dicts' = Append(dicts, copy(ctrl.env))
    /\ ctrl' = Ret(Closure(ctrl.expr.params, ctrl.expr.body, Len(dicts) + 1))
    /\ UNCHANGED <<prog, stack, cells, out>>

EvalInvalid ==
    /\ Evaluating("Invalid")
    /\ ctrl' = Raise("InvalidExpression")
    /\ UNCHANGED <<prog, stack, dicts, cells, out>>

----------------------------------------------------------------------------
(* read_input *)

\* result = evaluate_expression(parsed_input) returned: print(result)
read_input_print ==
    /\ ctrl.mode = "return"
    /\ stack = <<>>
    /\ out' = Append(out, <<ctrl.val>>)
    /\ ctrl' = Exit(ctrl.val, "")
    /\ UNCHANGED <<prog, stack, dicts, cells>>

\* an exception propagates through every pending activation to except Exception
read_input_except ==
    /\ ctrl.mode = "raise"
    /\ ctrl' = Exit(None, ctrl.err)
    /\ stack' = <<>>
    /\ UNCHANGED <<prog, dicts, cells, out>>

----------------------------------------------------------------------------
(* The inputs: expression trees built from small parameter sets *)

Lits == (0 - MaxLit)..MaxLit
CellNames == {"x", "v", "i"}                 \* names global_environment binds to a Variable
UnboundNames == {"n", "y"}                   \* names global_environment does not bind
BareNames == {"add", "print", "true"}        \* names bound to a builtin or a constant
InitialValue(n) == InitialCells[global_environment[n].a]

Call(f, args) == App(Id(f), args)
Show(e) == Call("print", <<e>>)
\* e preceded by a trace line: print(i), then e
Traced(i, e) == Block(<<Show(IntLit(i)), e>>)

RECURSIVE Nested(_, _)
\* e inside d nested Blocks
Nested(e, d) == IF d = 0 THEN e ELSE Block(<<Nested(e, d - 1)>>)

\* Arithmetic: div and mod on literals, alone and inside an enclosing expression
Division(op, a, b) == Call(op, <<IntLit(a), IntLit(b)>>)
Enclosed(ctx, e) ==
    CASE ctx = "alone" -> e
      [] ctx = "block" -> Block(<<e, IntLit(7)>>)
      [] ctx = "let" -> Let("n", e, IntLit(7))
      [] ctx = "argument" -> Call("print", <<e>>)
      [] ctx = "operand" -> Call("add", <<e, IntLit(1)>>)
      [] ctx = "assignment" -> Assignment("x", e)
Contexts == {"alone", "block", "let", "argument", "operand", "assignment"}
DivisionPrograms ==
    {Enclosed(ctx, Division(op, a, b)) : ctx \in Contexts, op \in {"div", "mod"},
                                         a \in Lits, b \in Lits}

\* Scoping: an assignment to n in a Block nested d deep, then reads in the outer Block
NestedAssignment(n, k, d) ==
    Block(<<Nested(Assignment(n, IntLit(k)), d), Show(Id(n)), Show(Id(n)), Id(n)>>)
ReassignedAfter(n, k, k2, d) ==
    Block(<<Nested(Assignment(n, IntLit(k)), d), Assignment(n, IntLit(k2)), Id(n)>>)
LetThenNestedAssignment(a, k, d) == Let("n", IntLit(a), NestedAssignment("n", k, d))
ScopePrograms ==
    {NestedAssignment(n, k, d) : n \in CellNames, k \in Lits, d \in 1..MaxDepth}
    \cup {ReassignedAfter(n, k, k2, d) : n \in CellNames, k \in Lits, k2 \in Lits,
                                         d \in 1..MaxDepth}
    \cup {LetThenNestedAssignment(a, k, d) : a \in Lits, k \in Lits, d \in 1..MaxDepth}

\* Closures: f reads n; n is assigned outside f (d Blocks deep) between calls of f
ClosureReads(n, k1, k2, d) ==
    Let("f", Lambda(<<>>, <<Id(n)>>),
        Block(<<Nested(Assignment(n, IntLit(k1)), d), Show(Call("f", <<>>)),
                Assignment(n, IntLit(k2)), Call("f", <<>>)>>))
ClosurePrograms ==
    {ClosureReads(n, k1, k2, d) : n \in CellNames, k1 \in Lits, k2 \in Lits,
                                  d \in 0..MaxDepth}
    \cup {Let("n", IntLit(a), ClosureReads("n", k1, k2, 0)) : a \in Lits, k1 \in Lits,
                                                            k2 \in Lits}

\* Shadowing: Let[x, e, body] where x is already bound outside, then a read of x
\* outside the Let.  x is a global Variable, or "n" bound by an enclosing Let.
OuterValue(x) == IF x \in CellNames THEN InitialValue(x) ELSE IntV(7)
Outer(x, e) == IF x \in CellNames THEN e ELSE Let(x, IntLit(7), e)
LetValue(ev, x, a) == IF ev = "literal" THEN IntLit(a) ELSE Assignment(x, IntLit(a))
LetBody(bk, x, k) ==
    CASE bk = "reads" -> Id(x)
      [] bk = "assigns" -> Assignment(x, IntLit(k))
      [] bk = "assignsNested" -> Block(<<Assignment(x, IntLit(k)), Id(x)>>)
Shadow(where, x, ev, a, bk, k) ==
    LET let == Let(x, LetValue(ev, x, a), LetBody(bk, x, k))
    IN Outer(x, Block(<<IF where = "block" THEN let
                        ELSE App(Lambda(<<>>, <<let>>), <<>>),
                        Id(x)>>))
\* a closure captures x, an unrelated Let rebinds and assigns x, the closure is called
CapturedThenShadowed(x, a, k) ==
    Outer(x, Let("f", Lambda(<<>>, <<Id(x)>>),
                 Block(<<Let(x, IntLit(a), Assignment(x, IntLit(k))), Call("f", <<>>)>>)))
\* a closure created outside the Let assigns x and is called from the Let's body
OuterWriter(x, a, k) ==
    Outer(x, Let("f", Lambda(<<>>, <<Assignment(x, IntLit(k))>>),
                 Block(<<Let(x, IntLit(a), Call("f", <<>>)), Id(x)>>)))
ShadowNames == CellNames \cup {"n"}
ShadowPrograms ==
    {Shadow(w, x, ev, a, bk, k) : w \in {"block", "closure"}, x \in ShadowNames,
                                  ev \in {"literal", "assigns"}, a \in 0..MaxLit,
                                  bk \in {"reads", "assigns", "assignsNested"},
                                  k \in 0..MaxLit}
    \cup {CapturedThenShadowed(x, a, k) : x \in ShadowNames, a \in 0..MaxLit, k \in 0..MaxLit}
    \cup {OuterWriter(x, a, k) : x \in ShadowNames, a \in 0..MaxLit, k \in 0..MaxLit}

\* Let whose value expression reads the name being bound
ReadsOf(rk, n, a) ==
    CASE rk = "identifier" -> Id(n)
      [] rk = "operand" -> Call("add", <<Id(n), IntLit(a)>>)
      [] rk = "block" -> Block(<<Call("add", <<Id(n), IntLit(a)>>)>>)
ReadKinds == {"identifier", "operand", "block"}
EffectBody(bk, n) ==
    CASE bk = "assigns" -> Assignment("x", IntLit(99))
      [] bk = "prints" -> Show(IntLit(1))
      [] bk = "reads" -> Id(n)
SelfReference(n, rk, a, bk) == Let(n, ReadsOf(rk, n, a), EffectBody(bk, n))
BodyKinds == {"assigns", "prints", "reads"}
LetValuePrograms ==
    {SelfReference(n, rk, a, bk) : n \in UnboundNames \cup CellNames, rk \in ReadKinds,
                                   a \in 0..MaxLit, bk \in BodyKinds}
    \cup {Outer("n", SelfReference("n", rk, a, bk)) : rk \in ReadKinds, a \in 0..MaxLit,
                                                      bk \in BodyKinds}

\* A binding made by Let or by a parameter, then the same name in a sibling expression
LetThenSibling(n, a) == Block(<<Let(n, IntLit(a), Id(n)), Id(n)>>)
ParameterThenSibling(n, a) == Block(<<App(Lambda(<<n>>, <<Id(n)>>), <<IntLit(a)>>), Id(n)>>)
AnyNames == CellNames \cup UnboundNames \cup BareNames
SiblingPrograms ==
    {LetThenSibling(n, a) : n \in AnyNames, a \in Lits}
    \cup {ParameterThenSibling(n, a) : n \in AnyNames, a \in Lits}

\* Cond: clause j prints j and then yields its test; its consequent assigns -j to x
TestKinds == {"true", "false", "zero", "one"}
TestExpr(tk) ==
    CASE tk = "true" -> Id("true")
      [] tk = "false" -> Id("false")
      [] tk = "zero" -> IntLit(0)
      [] tk = "one" -> IntLit(1)
CondOf(ts) ==
    Cond([j \in 1..Len(ts) |-> Clause(Traced(j, TestExpr(ts[j])), Assignment("x", IntLit(0 - j)))])
TestSequences == UNION {[1..n -> TestKinds] : n \in 0..MaxClauses}
CondExample == Cond(<<Clause(BoolLit(FALSE), IntLit(1)), Clause(BoolLit(TRUE), IntLit(2))>>)
CondPrograms == {CondOf(ts) : ts \in TestSequences} \cup {CondExample}

\* Closures of n parameters called with m arguments; the body assigns 99 to x
AllParams == <<"a", "b", "c", "d", "e">>
Params(n) == SubSeq(AllParams, 1, n)
ArityProgram(n, m) ==
    Let("f", Lambda(Params(n), <<Assignment("x", IntLit(99))>>),
        App(Id("f"), [j \in 1..m |-> IntLit(j)]))
ArityPrograms == {ArityProgram(n, m) : n \in 0..MaxParams, m \in 0..MaxArgs}

\* Assignment[n, e]
AssignedExpr(ek, k) ==
    CASE ek = "literal" -> IntLit(k)
      [] ek = "assigns" -> Assignment("v", IntLit(k))
      [] ek = "prints" -> Show(IntLit(k))
      [] ek = "fails" -> Id("y")
AssignedKinds == {"literal", "assigns", "prints", "fails"}
AssignProgram(n, ek, k) == Assignment(n, AssignedExpr(ek, k))
AssignPrograms == {AssignProgram(n, ek, k) : n \in AnyNames, ek \in AssignedKinds, k \in Lits}

\* Application: every child prints its position and then yields its value; argument
\* j increments x and yields the new value.  The callee prints what it receives.
Callee(fk, m) ==
    CASE fk = "builtin" -> Id("print")
      [] fk = "closure" -> Lambda(Params(m), <<App(Id("print"), [j \in 1..m |-> Id(Params(m)[j])])>>)
      [] fk = "integer" -> IntLit(5)
      [] fk = "string" -> StrLit("f")
      [] fk = "constant" -> Id("true")
CalleeKinds == {"builtin", "closure", "integer", "string", "constant"}
Increment == Assignment("x", Call("add", <<Id("x"), IntLit(1)>>))
OrderProgram(fk, m) == App(Traced(0, Callee(fk, m)), [j \in 1..m |-> Traced(j, Increment)])
OrderPrograms == {OrderProgram(fk, m) : fk \in CalleeKinds, m \in 0..MaxArgs}

\* The remaining expression shapes and builtins
OtherPrograms ==
    {Invalid, StrLit("s"), Block(<<>>), App(Lambda(<<>>, <<>>), <<>>), Id("x")}
    \cup {Call(op, <<IntLit(a), IntLit(b)>>) : op \in {"add", "sub", "mul", "eq"},
                                             a \in Lits, b \in Lits}
    \cup {Call("zero?", <<IntLit(a)>>) : a \in Lits}

Programs ==
    DivisionPrograms \cup ScopePrograms \cup ClosurePrograms \cup ShadowPrograms
    \cup LetValuePrograms \cup SiblingPrograms \cup CondPrograms \cup ArityPrograms
    \cup AssignPrograms \cup OrderPrograms \cup OtherPrograms

----------------------------------------------------------------------------
(* The specification *)

\* read_input has parsed the input and calls evaluate_expression(parsed_input),
\* whose env defaults to global_environment
Init ==
    /\ prog \in Programs
    /\ ctrl = Eval(prog, 1)
    /\ stack = <<>>
    /\ dicts = <<global_environment>>
    /\ cells = InitialCells
    /\ out = <<>>

Next ==
    \/ EvalInteger
    \/ EvalString
    \/ EvalIdentifier
    \/ EvalApplication
    \/ ApplicationNextArgument
    \/ ApplicationNotCallable
    \/ ApplicationBuiltin
    \/ evaluate_lambda
    \/ LambdaBodyNext
    \/ EvalCond
    \/ CondTestResult
    \/ EvalBlock
    \/ BlockNext
    \/ EvalLet
    \/ LetBind
    \/ EvalAssignment
    \/ AssignmentStore
    \/ EvalLambda
    \/ EvalInvalid
    \/ read_input_print
    \/ read_input_except

Spec == Init /\ [][Next]_vars

----------------------------------------------------------------------------
(* Observations *)

Exited == ctrl.mode = "exit"
Succeeded(x) == Exited /\ ctrl.err = "" /\ ctrl.val = x
Failed(kind) == Exited /\ ctrl.err = kind
\* what the evaluation itself printed (read_input adds the result as the last line)
Printed == IF Exited /\ ctrl.err = "" THEN SubSeq(out, 1, Len(out) - 1) ELSE out
TraceLines(lo, hi) == [j \in 1..(hi - lo + 1) |-> <<IntV(lo + j - 1)>>]
CellOf(n) == cells[global_environment[n].a]

----------------------------------------------------------------------------
(* Claims *)

\* C1: for every integer a, Application[div, a, 0] and Application[mod, a, 0] end in
\* a DivisionByZero failure of the evaluation, wherever they stand; no expression
\* ever returns an error object as an ordinary value to the expression around it.
C1_DivisionByZeroFails ==
    /\ ~(ctrl.mode = "return" /\ ctrl.val.t = "ValueError")
    /\ Exited => \A ctx \in Contexts, op \in {"div", "mod"}, a \in Lits :
                    prog = Enclosed(ctx, Division(op, a, 0)) => Failed("DivisionByZero")

\* C2: an Assignment to n executed in a Block nested (to any depth) in the scope that
\* binds n to a Variable is seen by every later read of n in that enclosing scope,
\* until the next assignment to n.
C2_NestedAssignmentVisible ==
    Exited =>
        /\ \A n \in CellNames, k \in Lits, d \in 1..MaxDepth :
              prog = NestedAssignment(n, k, d) =>
                  /\ Succeeded(IntV(k))
                  /\ Printed = <<<<IntV(k)>>, <<IntV(k)>>>>
                  /\ CellOf(n) = IntV(k)
        /\ \A n \in CellNames, k \in Lits, k2 \in Lits, d \in 1..MaxDepth :
              prog = ReassignedAfter(n, k, k2, d) => Succeeded(IntV(k2))
        /\ \A a \in Lits, k \in Lits, d \in 1..MaxDepth :
              prog = LetThenNestedAssignment(a, k, d) =>
                  /\ Succeeded(IntV(k))
                  /\ Printed = <<<<IntV(k)>>, <<IntV(k)>>>>

C2_Witness ==
    /\ Succeeded(IntV(2))
    /\ prog = NestedAssignment("x", 2, 2)
    /\ cells[1] = IntV(2)

\* C3: a closure whose body reads n, created while n is bound to a Variable, reads at
\* every invocation the value most recently assigned to n outside the closure, not
\* the value n had when the closure was created.
C3_ClosureSeesAssignment ==
    Exited =>
        /\ \A n \in CellNames, k1 \in Lits, k2 \in Lits, d \in 0..MaxDepth :
              prog = ClosureReads(n, k1, k2, d) =>
                  Succeeded(IntV(k2)) /\ Printed = <<<<IntV(k1)>>>>
        /\ \A a \in Lits, k1 \in Lits, k2 \in Lits :
              prog = Let("n", IntLit(a), ClosureReads("n", k1, k2, 0)) =>
                  Succeeded(IntV(k2)) /\ Printed = <<<<IntV(k1)>>>>

C3_Witness ==
    /\ Succeeded(IntV(2))
    /\ prog = ClosureReads("v", 1, 2, 1)
    /\ Printed = <<<<IntV(1)>>>>

\* C4 as stated: the Variable x denoted before Let[x, e, body] keeps its value across
\* the whole Let, so reading x in the outer scope after the Let (or after the closure
\* call that ran it) yields the value x had before.
C4_OuterCellKeepsValue ==
    Exited =>
        /\ \A w \in {"block", "closure"}, x \in ShadowNames, ev \in {"literal", "assigns"},
              a \in 0..MaxLit, bk \in {"reads", "assigns", "assignsNested"}, k \in 0..MaxLit :
              prog = Shadow(w, x, ev, a, bk, k) => Succeeded(OuterValue(x))
        /\ \A x \in ShadowNames, a \in 0..MaxLit, k \in 0..MaxLit :
              /\ prog = CapturedThenShadowed(x, a, k) => Succeeded(OuterValue(x))
              /\ prog = OuterWriter(x, a, k) => Succeeded(OuterValue(x))

\* the value of the outer x once the Let's value expression has been evaluated
ValueAfterLetValue(x, ev, a) == IF ev = "assigns" THEN IntV(a) ELSE OuterValue(x)
\* what the read of x after the Let yields, for every shadowing input
C4_ShadowResults ==
    Exited =>
        /\ \A w \in {"block", "closure"}, x \in ShadowNames, ev \in {"literal", "assigns"},
              a \in 0..MaxLit, bk \in {"reads", "assigns", "assignsNested"}, k \in 0..MaxLit :
              prog = Shadow(w, x, ev, a, bk, k) => Succeeded(ValueAfterLetValue(x, ev, a))
        /\ \A x \in ShadowNames, a \in 0..MaxLit, k \in 0..MaxLit :
              /\ prog = CapturedThenShadowed(x, a, k) => Succeeded(OuterValue(x))
              /\ prog = OuterWriter(x, a, k) => Succeeded(IntV(k))
\* the step that installs a Let binding: one new Variable, bound to the name in the
\* new dictionary, and every existing Variable as it was
C4_BindStep ==
    Returning("Let") =>
        /\ Len(cells') = Len(cells) + 1
        /\ SubSeq(cells', 1, Len(cells)) = cells
        /\ dicts'[Len(dicts')][Top.name] = Variable(Len(cells'))

\* C4 amended: installing a Let binding creates a new Variable and changes no existing
\* one, and assignments to x in the Let's body write the new Variable.  The Variable x
\* denoted before changes during the Let only through code that still refers to it:
\* the value expression e (evaluated in the outer scope) or a closure created outside
\* the Let.  After the Let, the outer x has the value it had when e finished, unless
\* such a closure was called.
C4_LetInstallsFreshCell == []C4_ShadowResults /\ [][C4_BindStep]_vars

C4_Witness ==
    /\ Succeeded(IntV(10))
    /\ prog = Shadow("closure", "x", "literal", 1, "assigns", 2)
    /\ cells[Len(cells)] = IntV(2)

\* what a value expression of kind rk yields when the name it reads holds `outer`
ReadValue(rk, outer, a) == IntV(IF rk = "identifier" THEN outer.int ELSE outer.int + a)

\* C5: the value expression of Let[n, e, body] is evaluated in the outer environment:
\* when n is not bound outside and e reads n, the Let fails with UnboundIdentifier and
\* body is never evaluated; when n is bound outside, e reads the outer value.
C5_LetValueInOuterEnvironment ==
    Exited =>
        /\ \A n \in UnboundNames, rk \in ReadKinds, a \in 0..MaxLit, bk \in BodyKinds :
              prog = SelfReference(n, rk, a, bk) =>
                  /\ Failed("UnboundIdentifier")
                  /\ cells = InitialCells
                  /\ out = <<>>
        /\ \A n \in CellNames, rk \in ReadKinds, a \in 0..MaxLit :
              prog = SelfReference(n, rk, a, "reads") =>
                  /\ Succeeded(ReadValue(rk, InitialValue(n), a))
                  /\ CellOf(n) = InitialValue(n)
        /\ \A rk \in ReadKinds, a \in 0..MaxLit :
              prog = Outer("n", SelfReference("n", rk, a, "reads")) =>
                  Succeeded(ReadValue(rk, OuterValue("n"), a))

C5_Witness ==
    /\ Failed("UnboundIdentifier")
    /\ prog = SelfReference("n", "operand", 1, "assigns")
    /\ cells = InitialCells

\* how n resolves in global_environment
SiblingSees(n) ==
    CASE n \in UnboundNames -> Failed("UnboundIdentifier")
      [] n \in CellNames -> Succeeded(InitialValue(n))
      [] n \in BareNames -> Succeeded(global_environment[n].v)
\* global_environment is as built, and a sibling of a Let or call binding n sees n
\* as global_environment has it
C6_SiblingResults ==
    /\ dicts[1] = global_environment
    /\ Exited => \A n \in AnyNames, a \in Lits :
                    (prog = LetThenSibling(n, a) \/ prog = ParameterThenSibling(n, a))
                        => SiblingSees(n)
\* a step changes no dictionary that exists
C6_FramesKept == \A d \in 1..Len(dicts) : dicts'[d] = dicts[d]

\* C6: a binding added in a derived frame never reaches the frame it was derived from:
\* no existing dictionary ever changes (so global_environment binds the same names
\* throughout), and after a Let or a closure call binding n has returned, n in a
\* sibling expression resolves as it did before (the same Variable, builtin or
\* constant, or still unbound).
C6_BindingsDoNotLeak == []C6_SiblingResults /\ [][C6_FramesKept]_vars

C6_Witness ==
    /\ Failed("UnboundIdentifier")
    /\ prog = ParameterThenSibling("n", 1)
    /\ Len(dicts) = 4

\* the clauses whose test is not false, and the first of them
NotFalse(ts) == {j \in 1..Len(ts) : ts[j] # "false"}
Deciding(ts) == CHOOSE j \in NotFalse(ts) : \A i \in NotFalse(ts) : j <= i

\* C7: Cond evaluates its tests one at a time from the first clause; the result is the
\* consequent of the first clause whose test is true and nothing of a later clause is
\* evaluated; a reached test that is not a boolean fails the Cond with TypeMismatch;
\* if every test is false the Cond fails with NoMatchingClause.  Clauses
\* [[false, 1], [true, 2]] give 2.
C7_CondInOrder ==
    Exited =>
        /\ \A ts \in TestSequences :
              prog = CondOf(ts) =>
                  IF NotFalse(ts) = {}
                  THEN /\ Failed("NoMatchingClause")
                       /\ Printed = TraceLines(1, Len(ts))
                       /\ cells = InitialCells
                  ELSE /\ Printed = TraceLines(1, Deciding(ts))
                       /\ IF ts[Deciding(ts)] = "true"
                          THEN /\ Succeeded(IntV(0 - Deciding(ts)))
                               /\ cells = [InitialCells EXCEPT ![1] = IntV(0 - Deciding(ts))]
                          ELSE /\ Failed("TypeMismatch")
                               /\ cells = InitialCells
        /\ prog = CondExample => Succeeded(IntV(2))

C7_Witness ==
    /\ Succeeded(IntV(0 - 2))
    /\ prog = CondOf(<<"false", "true", "zero">>)
    /\ Printed = TraceLines(1, 2)

\* C8: a closure of n parameters invoked with m # n arguments fails with
\* ArityMismatch before any expression of its body is evaluated, so the body changes
\* no Variable; with m = n the body runs.
C8_ArityChecked ==
    Exited =>
        \A n \in 0..MaxParams, m \in 0..MaxArgs :
            prog = ArityProgram(n, m) =>
                IF m = n
                THEN Succeeded(IntV(99)) /\ cells[1] = IntV(99)
                ELSE /\ Failed("ArityMismatch")
                     /\ SubSeq(cells, 1, 3) = InitialCells
                     /\ Len(cells) = 4

C8_Witness ==
    /\ Failed("ArityMismatch")
    /\ prog = ArityProgram(2, 3)
    /\ cells[1] = IntV(10)

\* the value of the assigned expression, and the Variables and output it leaves
AssignedValue(ek, k) == IF ek = "prints" THEN None ELSE IntV(k)
CellsAfter(ek, k) == IF ek = "assigns" THEN [InitialCells EXCEPT ![2] = IntV(k)] ELSE InitialCells
PrintedBy(ek, k) == IF ek = "prints" THEN <<<<IntV(k)>>>> ELSE <<>>

\* C9: Assignment[n, e] evaluates e first, in the current environment; then, if n is
\* bound to a Variable it stores the value there and returns it; if n is unbound it
\* fails with UnboundIdentifier; if n is bound to a builtin or constant it fails with
\* NotAssignable.  In both failures the binding of n and every Variable not written
\* while evaluating e are unchanged.
C9_AssignmentOutcome ==
    Exited =>
        \A n \in AnyNames, ek \in AssignedKinds, k \in Lits :
            prog = AssignProgram(n, ek, k) =>
                /\ dicts[1] = global_environment
                /\ Printed = PrintedBy(ek, k)
                /\ IF ek = "fails"
                   THEN Failed("UnboundIdentifier") /\ cells = InitialCells
                   ELSE CASE n \in CellNames ->
                               /\ Succeeded(AssignedValue(ek, k))
                               /\ cells = [CellsAfter(ek, k) EXCEPT ![global_environment[n].a] =
                                              AssignedValue(ek, k)]
                          [] n \in UnboundNames ->
                               Failed("UnboundIdentifier") /\ cells = CellsAfter(ek, k)
                          [] n \in BareNames ->
                               Failed("NotAssignable") /\ cells = CellsAfter(ek, k)

C9_Witness ==
    /\ Failed("NotAssignable")
    /\ prog = AssignProgram("add", "assigns", 2)
    /\ cells[2] = IntV(2)

\* the line the callee prints: the m argument values, in order
Received(m) == <<[j \in 1..m |-> IntV(10 + j)]>>

\* C10: Application evaluates the function-position child first, then the arguments
\* left to right in the current environment, each completing before the next starts
\* (argument j sees what argument i < j assigned); only then is the callable invoked;
\* a function-position value that is no builtin or closure fails with NotCallable and
\* nothing is invoked.
C10_ApplicationOrder ==
    Exited =>
        \A fk \in CalleeKinds, m \in 0..MaxArgs :
            prog = OrderProgram(fk, m) =>
                /\ cells = [InitialCells EXCEPT ![1] = IntV(10 + m)] \o
                           (IF fk = "closure" THEN Received(m)[1] ELSE <<>>)
                /\ IF fk \in {"builtin", "closure"}
                   THEN Succeeded(None) /\ Printed = TraceLines(0, m) \o Received(m)
                   ELSE Failed("NotCallable") /\ Printed = TraceLines(0, m)

C10_Witness ==
    /\ Succeeded(None)
    /\ prog = OrderProgram("closure", 3)
    /\ Printed = TraceLines(0, 3) \o <<<<IntV(11), IntV(12), IntV(13)>>>>

====
